---- MODULE Spec2Model ----
(***************************************************************************)
(* Model of src/sourcecode/RankedTextSearch3.py: the script reads a sheet  *)
(* of keyword records, analyze_keywords classifies every keyword as        *)
(* 'primary' or 'Secondary', builds one 'Master' row per primary row,      *)
(* records a master group per keyword, and returns the merged table sorted *)
(* by (MasterGroup, Class, Keyword); the script writes it to a new sheet.  *)
(*                                                                         *)
(* A keyword text is a sequence of one-character strings.  A row of the    *)
(* DataFrame is a record [Keyword, Ranking, Class].                        *)
(***************************************************************************)
EXTENDS Integers, Sequences, FiniteSets

\* ------------------------------------------------------------------ bounds
MaxLen == 3
MaxRecs == 3
MaxRank == 2
MaxGroupRecs == 4
MaxRawRecs == 2

\* Two letters that differ in case only.
Alphabet == {"A", "a"}

\* ------------------------------------------------------------ cell values
\* An empty spreadsheet cell: pandas reads it as the float NaN.
NaN == <<"NaN">>

\* str(float('nan')), what astype(str) makes of an empty cell.
NaNText == <<"n", "a", "n">>

Texts == UNION {[1..n -> Alphabet] : n \in 1..MaxLen}

Rankings == 1..MaxRank

RecordsOf(K, R) == [Keyword : K, Ranking : R]

ListsOf(S, n) == UNION {[1..m -> S] : m \in 0..n}

\* Sheets whose cells are all filled, rankings varying.
Inputs == ListsOf(RecordsOf(Texts, Rankings), MaxRecs)

\* Longer sheets, every ranking 1: the map and the sort do not read rankings.
GroupInputs == ListsOf(RecordsOf(Texts, {1}), MaxGroupRecs)

\* Sheets in which a keyword cell may be empty.
RawInputs == ListsOf(RecordsOf(Texts \cup {NaN}, Rankings), MaxRawRecs)

VARIABLES
    pc,                         \* position of the script
    input_exists,               \* keyword_data.xlsx is there
    sheet,                      \* its data rows
    keyword_data_from_excel,    \* line 119
    df,                         \* lines 18-40
    master_rows,                \* line 47
    keyword_master_group_map,   \* line 49
    pos,                        \* rows of primary_keywords_df already processed
    final_df,                   \* lines 85-104, the returned table
    output_file                 \* rows of analyzed_keywords.xlsx, <<>> while unwritten

vars == <<pc, input_exists, sheet, keyword_data_from_excel, df, master_rows,
          keyword_master_group_map, pos, final_df, output_file>>

\* ----------------------------------------------------------- text helpers
\* Python's `sub in s` for str: sub occurs at some offset of s.
RECURSIVE FindFrom(_, _, _)
FindFrom(sub, s, i) ==
    IF i + Len(sub) - 1 > Len(s) THEN FALSE
    ELSE IF SubSeq(s, i, i + Len(sub) - 1) = sub THEN TRUE
    ELSE FindFrom(sub, s, i + 1)

Contains(sub, s) == FindFrom(sub, s, 1)

\* Code point of a character.
Ord(c) == CASE c = "A" -> 65 [] c = "a" -> 97 [] c = "n" -> 110

\* Python's s < t for str: first differing code point, a proper prefix is less.
RECURSIVE StrLess(_, _)
StrLess(s, t) ==
    IF t = <<>> THEN FALSE
    ELSE IF s = <<>> THEN TRUE
    ELSE IF Head(s) # Head(t) THEN Ord(Head(s)) < Ord(Head(t))
    ELSE StrLess(Tail(s), Tail(t))

\* Series.astype(str) on one cell.
AsTypeStr(cell) == IF cell = NaN THEN NaNText ELSE cell

\* ------------------------------------------------------ step 1: classify
\* Lines 34-39: the scan over all_keywords, with its break.
\* Variant: the scan without the test that the other keyword differs.
RECURSIVE IsPrimaryScanNoSelfTest(_, _, _)
IsPrimaryScanNoSelfTest(current_keyword, all_keywords, j) ==
    IF j > Len(all_keywords) THEN FALSE
    ELSE IF Contains(all_keywords[j], current_keyword) THEN TRUE
    ELSE IsPrimaryScanNoSelfTest(current_keyword, all_keywords, j + 1)

RECURSIVE IsPrimaryScan(_, _, _)
IsPrimaryScan(current_keyword, all_keywords, j) ==
    IF j > Len(all_keywords) THEN FALSE
    ELSE IF current_keyword # all_keywords[j] /\ Contains(all_keywords[j], current_keyword)
         THEN TRUE
    ELSE IsPrimaryScan(current_keyword, all_keywords, j + 1)

ClassOf(current_keyword, all_keywords) ==
    IF IsPrimaryScan(current_keyword, all_keywords, 1) THEN "primary" ELSE "Secondary"

AllKeywords(frame) == [i \in 1..Len(frame) |-> frame[i].Keyword]

ClassifyFrame(frame) ==
    [i \in 1..Len(frame) |->
        [frame[i] EXCEPT !.Class = ClassOf(frame[i].Keyword, AllKeywords(frame))]]

\* --------------------------------------------------- step 2: master rows
IsPrimaryRow(r) == r.Class = "primary"

PrimaryKeywordsDf(frame) == SelectSeq(frame, IsPrimaryRow)

\* Variant: an assignment that keeps the value a key already has (setdefault).
MapPutIfAbsent(m, key, value) ==
    [x \in (DOMAIN m) \cup {key} |-> IF x \in DOMAIN m THEN m[x] ELSE value]

\* dict item assignment.
MapPut(m, key, value) ==
    [x \in (DOMAIN m) \cup {key} |-> IF x = key THEN value ELSE m[x]]

\* dict.get(x, x), line 91.
MapGet(m, x) == IF x \in DOMAIN m THEN m[x] ELSE x

\* Variant: line 66 with key and value exchanged.
RECURSIVE InnerLoopSwapped(_, _, _, _)
InnerLoopSwapped(frame, master_keyword_name, j, acc) ==
    IF j > Len(frame) THEN acc
    ELSE IF frame[j].Keyword # master_keyword_name
            /\ Contains(frame[j].Keyword, master_keyword_name)
         THEN InnerLoopSwapped(frame, master_keyword_name, j + 1,
                        [sum |-> acc.sum + frame[j].Ranking,
                         map |-> MapPut(acc.map, master_keyword_name, frame[j].Keyword)])
    ELSE InnerLoopSwapped(frame, master_keyword_name, j + 1, acc)

\* Variant: only Secondary rows are added to the master's sum.
RECURSIVE InnerLoopSecondaryOnly(_, _, _, _)
InnerLoopSecondaryOnly(frame, master_keyword_name, j, acc) ==
    IF j > Len(frame) THEN acc
    ELSE IF frame[j].Keyword # master_keyword_name
            /\ Contains(frame[j].Keyword, master_keyword_name)
         THEN InnerLoopSecondaryOnly(frame, master_keyword_name, j + 1,
                        [sum |-> IF frame[j].Class = "Secondary"
                                 THEN acc.sum + frame[j].Ranking ELSE acc.sum,
                         map |-> MapPut(acc.map, frame[j].Keyword, master_keyword_name)])
    ELSE InnerLoopSecondaryOnly(frame, master_keyword_name, j + 1, acc)

\* Lines 61-66: the scan of df for one master, from row j on; acc = [sum, map].
RECURSIVE InnerLoop(_, _, _, _)
InnerLoop(frame, master_keyword_name, j, acc) ==
    IF j > Len(frame) THEN acc
    ELSE IF frame[j].Keyword # master_keyword_name
            /\ Contains(frame[j].Keyword, master_keyword_name)
         THEN InnerLoop(frame, master_keyword_name, j + 1,
                        [sum |-> acc.sum + frame[j].Ranking,
                         map |-> MapPut(acc.map, frame[j].Keyword, master_keyword_name)])
    ELSE InnerLoop(frame, master_keyword_name, j + 1, acc)

\* Variant: line 58 left out, the primary keyword is not registered.
AggregateOneNoSelf(frame, primary_row, map) ==
    InnerLoop(frame, primary_row.Keyword, 1,
              [sum |-> primary_row.Ranking, map |-> map])

\* Variant: the sum starts at 0 instead of the primary row's own ranking.
AggregateOneFromZero(frame, primary_row, map) ==
    InnerLoop(frame, primary_row.Keyword, 1,
              [sum |-> 0,
               map |-> MapPut(map, primary_row.Keyword, primary_row.Keyword)])

\* Lines 54-66 for one primary row: its ranking sum and the map afterwards.
AggregateOne(frame, primary_row, map) ==
    InnerLoop(frame, primary_row.Keyword, 1,
              [sum |-> primary_row.Ranking,
               map |-> MapPut(map, primary_row.Keyword, primary_row.Keyword)])

IsMasterRow(r) == r.Class = "Master"

MasterRow(name, sum) == [Keyword |-> name, Ranking |-> sum, Class |-> "Master"]

\* ------------------------------------------------- step 3: merge and sort
\* Variant: Class sorted as plain text, without the Categorical of line 96.
ClassRankAsText(c) == CASE c = "Master" -> 0 [] c = "Secondary" -> 1 [] c = "primary" -> 2

\* Position of a class in class_order, line 94.
ClassRank(c) == CASE c = "Master" -> 0 [] c = "primary" -> 1 [] c = "Secondary" -> 2

\* Strict order of sort_values(by=['MasterGroup', 'Class', 'Keyword']).
KeyLess(r1, r2, map) ==
    LET g1 == MapGet(map, r1.Keyword)
        g2 == MapGet(map, r2.Keyword)
    IN  IF g1 # g2 THEN StrLess(g1, g2)
        ELSE IF r1.Class # r2.Class THEN ClassRank(r1.Class) < ClassRank(r2.Class)
        ELSE StrLess(r1.Keyword, r2.Keyword)

\* Stable insertion: r goes behind every row that is not greater than it.
RECURSIVE InsertRow(_, _, _)
InsertRow(r, sorted, map) ==
    IF sorted = <<>> THEN <<r>>
    ELSE IF KeyLess(r, Head(sorted), map) THEN <<r>> \o sorted
    ELSE <<Head(sorted)>> \o InsertRow(r, Tail(sorted), map)

RECURSIVE SortFrom(_, _, _, _)
SortFrom(rows, i, sorted, map) ==
    IF i > Len(rows) THEN sorted
    ELSE SortFrom(rows, i + 1, InsertRow(rows[i], sorted, map), map)

SortValues(rows, map) == SortFrom(rows, 1, <<>>, map)

\* Variant: the master frame is left out of the concatenation.
ConcatFrameOnly(frame, df_master) == frame

\* pd.concat([df, df_master], ignore_index=True)
Concat(frame, df_master) == frame \o df_master

\* ----------------------------------------------------------------- states
InitWith(S) ==
    /\ pc = "start"
    /\ \/ input_exists = TRUE /\ sheet \in S
       \/ input_exists = FALSE /\ sheet = <<>>
    /\ keyword_data_from_excel = <<>>
    /\ df = <<>>
    /\ master_rows = <<>>
    /\ keyword_master_group_map = <<>>
    /\ pos = 0
    /\ final_df = <<>>
    /\ output_file = <<>>

Init == InitWith(Inputs)

InitGroups == InitWith(GroupInputs)

InitRaw == InitWith(RawInputs)

\* Line 119: pd.read_excel(...).to_dict(orient='records')
ReadExcel ==
    /\ pc = "start"
    /\ input_exists
    /\ keyword_data_from_excel' = sheet
    /\ pc' = "read"
    /\ UNCHANGED <<input_exists, sheet, df, master_rows, keyword_master_group_map,
                   pos, final_df, output_file>>

\* Line 119 raising FileNotFoundError, handled at lines 130-132.
ReadExcelNotFound ==
    /\ pc = "start"
    /\ ~input_exists
    /\ pc' = "not_found"
    /\ UNCHANGED <<input_exists, sheet, keyword_data_from_excel, df, master_rows,
                   keyword_master_group_map, pos, final_df, output_file>>

\* Lines 18-26.  A list of no records makes a frame of no columns, and
\* df['Keyword'] raises KeyError.
BuildFrame ==
    /\ pc = "read"
    /\ keyword_data_from_excel # <<>>
    /\ df' = [i \in 1..Len(keyword_data_from_excel) |->
                [Keyword |-> AsTypeStr(keyword_data_from_excel[i].Keyword),
                 Ranking |-> keyword_data_from_excel[i].Ranking,
                 Class |-> ""]]
    /\ pc' = "step1"
    /\ UNCHANGED <<input_exists, sheet, keyword_data_from_excel, master_rows,
                   keyword_master_group_map, pos, final_df, output_file>>

BuildFrameKeyError ==
    /\ pc = "read"
    /\ keyword_data_from_excel = <<>>
    /\ pc' = "raised"
    /\ UNCHANGED <<input_exists, sheet, keyword_data_from_excel, df, master_rows,
                   keyword_master_group_map, pos, final_df, output_file>>

\* Lines 29-40.
Classify ==
    /\ pc = "step1"
    /\ df' = ClassifyFrame(df)
    /\ pc' = "step2"
    /\ UNCHANGED <<input_exists, sheet, keyword_data_from_excel, master_rows,
                   keyword_master_group_map, pos, final_df, output_file>>

\* Lines 53-73: one turn of the loop over primary_keywords_df.
AggregateStep ==
    /\ pc = "step2"
    /\ pos < Len(PrimaryKeywordsDf(df))
    /\ LET primary_row == PrimaryKeywordsDf(df)[pos + 1]
           res == AggregateOne(df, primary_row, keyword_master_group_map)
       IN  /\ master_rows' = Append(master_rows, MasterRow(primary_row.Keyword, res.sum))
           /\ keyword_master_group_map' = res.map
    /\ pos' = pos + 1
    /\ UNCHANGED <<pc, input_exists, sheet, keyword_data_from_excel, df, final_df,
                   output_file>>

\* Lines 78-108: the loop is over; merge, sort, drop MasterGroup, return.
MergeAndSort ==
    /\ pc = "step2"
    /\ pos = Len(PrimaryKeywordsDf(df))
    /\ final_df' = SortValues(Concat(df, master_rows), keyword_master_group_map)
    /\ pc' = "returned"
    /\ UNCHANGED <<input_exists, sheet, keyword_data_from_excel, df, master_rows,
                   keyword_master_group_map, pos, output_file>>

\* Line 127.
WriteExcel ==
    /\ pc = "returned"
    /\ output_file' = final_df
    /\ pc' = "done"
    /\ UNCHANGED <<input_exists, sheet, keyword_data_from_excel, df, master_rows,
                   keyword_master_group_map, pos, final_df>>

\* Lines 133-134.
HandleException ==
    /\ pc = "raised"
    /\ pc' = "failed"
    /\ UNCHANGED <<input_exists, sheet, keyword_data_from_excel, df, master_rows,
                   keyword_master_group_map, pos, final_df, output_file>>

Next ==
    \/ ReadExcel
    \/ ReadExcelNotFound
    \/ BuildFrame
    \/ BuildFrameKeyError
    \/ Classify
    \/ AggregateStep
    \/ MergeAndSort
    \/ WriteExcel
    \/ HandleException

Spec == Init /\ [][Next]_vars

SpecGroups == InitGroups /\ [][Next]_vars

SpecRaw == InitRaw /\ [][Next]_vars

\* The whole of lines 47-73 on a classified frame, from primary row q on:
\* acc = [rows, map].  AggregateStep is one turn of it.
RECURSIVE AggregateFrom(_, _, _)
AggregateFrom(frame, q, acc) ==
    IF q > Len(PrimaryKeywordsDf(frame)) THEN acc
    ELSE LET primary_row == PrimaryKeywordsDf(frame)[q]
             res == AggregateOne(frame, primary_row, acc.map)
         IN  AggregateFrom(frame, q + 1,
                           [rows |-> Append(acc.rows, MasterRow(primary_row.Keyword, res.sum)),
                            map |-> res.map])

MasterRowsOf(frame) == AggregateFrom(ClassifyFrame(frame), 1, [rows |-> <<>>, map |-> <<>>]).rows

\* ------------------------------------------------- vocabulary of the claims
\* s is a contiguous run of t (or equal to it).
IsSubstring(s, t) ==
    \E i \in 1..(Len(t) + 1) : \E n \in 0..Len(t) :
        /\ i + n - 1 <= Len(t)
        /\ n = Len(s)
        /\ \A d \in 1..n : t[i + d - 1] = s[d]

\* s sorts strictly before t by exact text.
TextBefore(s, t) ==
    \E n \in 0..Len(s) :
        /\ n <= Len(t)
        /\ \A d \in 1..n : s[d] = t[d]
        /\ \/ n = Len(s) /\ n < Len(t)
           \/ n < Len(s) /\ n < Len(t) /\ Ord(s[n + 1]) < Ord(t[n + 1])

RECURSIVE SumRanking(_, _)
SumRanking(frame, I) ==
    IF I = {} THEN 0
    ELSE LET i == CHOOSE x \in I : TRUE
         IN  frame[i].Ranking + SumRanking(frame, I \ {i})

Rows(frame) == 1..Len(frame)

Count(frame, r) == Cardinality({i \in Rows(frame) : frame[i] = r})

SameBag(f, g) ==
    /\ Len(f) = Len(g)
    /\ \A i \in Rows(f) : Count(f, f[i]) = Count(g, f[i])

Perms(n) == {p \in [1..n -> 1..n] : \A i, j \in 1..n : i # j => p[i] # p[j]}

Permute(frame, p) == [i \in Rows(frame) |-> frame[p[i]]]

\* Rows of df whose keyword is a substring of kw and differs from it.
ProperParts(kw) ==
    {j \in Rows(df) : df[j].Keyword # kw /\ IsSubstring(df[j].Keyword, kw)}

\* A different keyword of the input is a substring of df[i]'s.
HasProperPart(i) == ProperParts(df[i].Keyword) # {}

PrimaryIdx == {i \in Rows(df) : HasProperPart(i)}

\* Row of df behind the q-th row of primary_keywords_df.
IdxOfPrimary(q) ==
    CHOOSE i \in PrimaryIdx : Cardinality({j \in PrimaryIdx : j <= i}) = q

Classified == pc \in {"step2", "returned", "done"}

LoopDone ==
    \/ pc \in {"returned", "done"}
    \/ pc = "step2" /\ pos = Len(PrimaryKeywordsDf(df))

Returned == pc \in {"returned", "done"}

\* ------------------------------------------------------------------ C1
\* C1: after step 1 every row is labelled 'primary' exactly when the keyword
\* of some row, different from its own text, is a substring of its keyword,
\* and 'Secondary' otherwise; rows of equal text never make each other
\* primary; classifying any permutation of the rows gives every row the
\* same label.
C1_Classification ==
    Classified =>
        /\ \A i \in Rows(df) :
              /\ df[i].Class \in {"primary", "Secondary"}
              /\ df[i].Class = "primary" <=> HasProperPart(i)
        /\ \A i, j \in Rows(df) :
              (df[i].Keyword = df[j].Keyword /\ ProperParts(df[i].Keyword) = {})
                  => df[i].Class = "Secondary"
        /\ \A p \in Perms(Len(df)) :
              LET again == ClassifyFrame(Permute(df, p))
              IN  \A i \in Rows(df) : again[i].Class = df[p[i]].Class

\* Two rows of one text stay Secondary beside a primary row.
C1_Witness ==
    /\ Classified
    /\ \E i, j, k \in Rows(df) :
          /\ i # j
          /\ df[i].Keyword = df[j].Keyword
          /\ df[i].Class = "Secondary"
          /\ df[j].Class = "Secondary"
          /\ df[k].Class = "primary"
          /\ IsSubstring(df[i].Keyword, df[k].Keyword)

\* ------------------------------------------------------------------ C2
\* The nested example of the specification, with "a" for "shoe", "Aa" for
\* "running shoe" and "AAa" for "red running shoe".
NestedExample ==
    << [Keyword |-> <<"A", "a">>, Ranking |-> 7, Class |-> ""],
       [Keyword |-> <<"a">>, Ranking |-> 3, Class |-> ""],
       [Keyword |-> <<"A", "A", "a">>, Ranking |-> 2, Class |-> ""] >>

\* C2: the q-th Master row carries the keyword of the q-th primary row and
\* that row's ranking plus the ranking of every row of df whose keyword
\* differs from it and is a substring of it; the Master rows are the same
\* bag for every permutation of the input; the returned table holds exactly
\* these Master rows; the nested example gives 10 and 12.
C2_MasterRanking ==
    LoopDone =>
        /\ Len(master_rows) = Cardinality(PrimaryIdx)
        /\ \A q \in Rows(master_rows) :
              LET i == IdxOfPrimary(q)
              IN  /\ master_rows[q].Keyword = df[i].Keyword
                  /\ master_rows[q].Ranking =
                        df[i].Ranking + SumRanking(df, ProperParts(df[i].Keyword))
        /\ \A p \in Perms(Len(df)) : SameBag(MasterRowsOf(Permute(df, p)), master_rows)
        /\ Returned => SameBag(SelectSeq(final_df, IsMasterRow), master_rows)
        /\ MasterRowsOf(NestedExample) =
              << MasterRow(<<"A", "a">>, 10), MasterRow(<<"A", "A", "a">>, 12) >>

\* A returned table with two Master rows, one keyword inside the other, the
\* longer one summing a primary and a Secondary row.
C2_Witness ==
    /\ Returned
    /\ \E q1, q2 \in Rows(master_rows) :
          /\ master_rows[q1].Keyword # master_rows[q2].Keyword
          /\ IsSubstring(master_rows[q1].Keyword, master_rows[q2].Keyword)
          /\ master_rows[q2].Ranking > MaxRank + 1

\* ------------------------------------------------------------------ C3
\* Rows of df whose keyword is a substring of kw or equal to it.
PartsOrEqual(kw) == {j \in Rows(df) : IsSubstring(df[j].Keyword, kw)}

SameText(kw) == {j \in Rows(df) : df[j].Keyword = kw}

\* C3 as stated: every Master row of the returned table carries the sum of
\* the rankings of all rows of df whose keyword is a substring of, or equal
\* to, its keyword, each counted once.
C3_Original ==
    Returned =>
        \A i \in Rows(final_df) :
            final_df[i].Class = "Master" =>
                final_df[i].Ranking = SumRanking(df, PartsOrEqual(final_df[i].Keyword))

\* C3 amended: the Master row made for a primary row carries the sum of the
\* rankings of all rows whose keyword is a substring of, or equal to, its
\* keyword, each counted once, except the other rows of the very same
\* keyword text, which are not counted; every Master row of the returned
\* table is such a row.
C3_Conservation ==
    LoopDone =>
        /\ \A q \in Rows(master_rows) :
              LET kw == master_rows[q].Keyword
              IN  master_rows[q].Ranking =
                      SumRanking(df, PartsOrEqual(kw))
                          - SumRanking(df, SameText(kw) \ {IdxOfPrimary(q)})
        /\ Returned =>
              \A i \in Rows(final_df) :
                  final_df[i].Class = "Master" =>
                      \E q \in Rows(master_rows) : master_rows[q] = final_df[i]

\* A returned table with a Master row whose keyword stands in two rows of df.
C3_Witness ==
    /\ Returned
    /\ \E q \in Rows(master_rows) : Cardinality(SameText(master_rows[q].Keyword)) >= 2

\* ------------------------------------------------------------------ C4
\* Resolved master group of a row of the returned table.
GroupOf(r) ==
    IF r.Keyword \in DOMAIN keyword_master_group_map
    THEN keyword_master_group_map[r.Keyword]
    ELSE r.Keyword

Tiers == <<"Master", "primary", "Secondary">>

TierOf(r) == CHOOSE t \in 1..Len(Tiers) : Tiers[t] = r.Class

\* C4: in the returned table the rows of one master group are contiguous,
\* groups come in ascending order of their key, inside a group Master rows
\* come before primary rows before Secondary rows, and inside a tier the
\* keywords ascend by exact text.
C4_TierOrdering ==
    Returned =>
        \A i, j \in Rows(final_df) :
            i < j =>
                /\ GroupOf(final_df[i]) = GroupOf(final_df[j]) =>
                      /\ \A m \in i..j : GroupOf(final_df[m]) = GroupOf(final_df[i])
                      /\ TierOf(final_df[i]) <= TierOf(final_df[j])
                      /\ final_df[i].Class = final_df[j].Class =>
                            ~TextBefore(final_df[j].Keyword, final_df[i].Keyword)
                /\ GroupOf(final_df[i]) # GroupOf(final_df[j]) =>
                      TextBefore(GroupOf(final_df[i]), GroupOf(final_df[j]))

\* A returned table of two groups at least, one of them with Master, primary
\* and Secondary rows and with two Master rows of different keywords.
C4_Witness ==
    /\ Returned
    /\ \E i, j, m, n, o \in Rows(final_df) :
          /\ GroupOf(final_df[i]) = GroupOf(final_df[j])
          /\ GroupOf(final_df[i]) = GroupOf(final_df[m])
          /\ GroupOf(final_df[i]) = GroupOf(final_df[n])
          /\ GroupOf(final_df[i]) # GroupOf(final_df[o])
          /\ final_df[i].Class = "Master"
          /\ final_df[j].Class = "Master"
          /\ final_df[i].Keyword # final_df[j].Keyword
          /\ final_df[m].Class = "primary"
          /\ final_df[n].Class = "Secondary"

\* ------------------------------------------------------------------ C5
IsOriginalRow(r) == r.Class # "Master"

\* C5: the returned table holds every input record once, keyword and
\* ranking unchanged, classed primary or Secondary, and one Master row per
\* primary record, whose keyword is that record's, and nothing else: n + p
\* rows, p of them Master.
C5_OutputRows ==
    Returned =>
        /\ Len(df) = Len(sheet)
        /\ \A i \in Rows(df) :
              /\ df[i].Keyword = sheet[i].Keyword
              /\ df[i].Ranking = sheet[i].Ranking
              /\ df[i].Class \in {"primary", "Secondary"}
        /\ SameBag(SelectSeq(final_df, IsOriginalRow), df)
        /\ Len(final_df) = Len(sheet) + Cardinality(PrimaryIdx)
        /\ Cardinality({i \in Rows(final_df) : final_df[i].Class = "Master"})
              = Cardinality(PrimaryIdx)
        /\ \A kw \in Texts :
              Cardinality({i \in Rows(final_df) :
                              final_df[i].Class = "Master" /\ final_df[i].Keyword = kw})
                  = Cardinality({i \in PrimaryIdx : df[i].Keyword = kw})

\* A written table of three input records and two Master rows.
C5_Witness ==
    /\ pc = "done"
    /\ output_file = final_df
    /\ Len(sheet) = 3
    /\ Len(final_df) = 5

\* ------------------------------------------------------------------ C6
\* No keyword of the sheet contains a different keyword of the sheet.
NoContainment ==
    \A i, j \in Rows(sheet) :
        sheet[i].Keyword # sheet[j].Keyword
            => ~IsSubstring(sheet[j].Keyword, sheet[i].Keyword)

CallEnded == pc \in {"returned", "done", "raised", "failed"}

\* The returned table is the input, all Secondary, in ascending keyword order.
SecondaryOnlyTable ==
    /\ master_rows = <<>>
    /\ DOMAIN keyword_master_group_map = {}
    /\ Len(final_df) = Len(sheet)
    /\ \A i \in Rows(final_df) :
          /\ final_df[i].Class = "Secondary"
          /\ GroupOf(final_df[i]) = final_df[i].Keyword
          /\ Cardinality({j \in Rows(final_df) : final_df[j] = final_df[i]})
                = Cardinality({j \in Rows(sheet) :
                      /\ sheet[j].Keyword = final_df[i].Keyword
                      /\ sheet[j].Ranking = final_df[i].Ranking})
    /\ \A i, j \in Rows(final_df) :
          i < j => ~TextBefore(final_df[j].Keyword, final_df[i].Keyword)

\* C6 as stated: whenever no keyword of the input contains a different one,
\* the call returns, with no Master row, an empty map and exactly the input
\* records, all Secondary, in ascending keyword order.
C6_Original == (CallEnded /\ NoContainment) => (Returned /\ SecondaryOnlyTable)

\* C6 for an input of one record at least.
C6_NonEmpty == (CallEnded /\ NoContainment /\ sheet # <<>>) => (Returned /\ SecondaryOnlyTable)

\* ------------------------------------------------------------------ C7
\* A record of the sheet has no keyword.
Malformed == \E i \in Rows(sheet) : sheet[i].Keyword = NaN

\* C7 as stated: with a record that lacks a keyword the classification fails
\* as a whole: no table is returned and no file is written.
C7_Original ==
    Malformed =>
        /\ ~Returned
        /\ final_df = <<>>
        /\ output_file = <<>>

\* ------------------------------------------------------------------ C8
\* Last row of df with the keyword kw.
LastRow(kw) == CHOOSE i \in SameText(kw) : \A j \in SameText(kw) : j <= i

\* Rows of df whose keyword contains kw and differs from it (all primary).
Containers(kw) ==
    {j \in Rows(df) : df[j].Keyword # kw /\ IsSubstring(kw, df[j].Keyword)}

\* C8 as stated: after the loop every primary keyword maps to itself.
C8_Original ==
    LoopDone =>
        \A i \in Rows(df) :
            df[i].Class = "primary" =>
                /\ df[i].Keyword \in DOMAIN keyword_master_group_map
                /\ keyword_master_group_map[df[i].Keyword] = df[i].Keyword

\* C8 amended: after the loop every primary keyword is a key of the map; it
\* maps to itself exactly when no record with a different keyword that
\* contains it comes later in the input than its own last record, and
\* otherwise to the keyword of such a later record.
C8_PrimarySelf ==
    LoopDone =>
        \A i \in Rows(df) :
            df[i].Class = "primary" =>
                LET kw == df[i].Keyword
                    later == {j \in Containers(kw) : j > LastRow(kw)}
                IN  /\ kw \in DOMAIN keyword_master_group_map
                    /\ keyword_master_group_map[kw] = kw <=> later = {}
                    /\ later # {} =>
                          \E j \in later : keyword_master_group_map[kw] = df[j].Keyword

\* After the loop: a primary keyword inside an earlier primary keeps itself,
\* another one inside a later primary does not.
C8_Witness ==
    /\ LoopDone
    /\ \E i, j \in Rows(df) :
          /\ df[i].Class = "primary"
          /\ df[j].Class = "primary"
          /\ Containers(df[i].Keyword) # {}
          /\ keyword_master_group_map[df[i].Keyword] = df[i].Keyword
          /\ keyword_master_group_map[df[j].Keyword] # df[j].Keyword

\* ------------------------------------------------------------------ C9
MaxOf(I) == CHOOSE i \in I : \A j \in I : j <= i

ContainerTexts(kw) == {df[j].Keyword : j \in Containers(kw)}

\* C9 as stated: a keyword inside two or more different primary keywords
\* maps, after the loop, to the one of them that comes last in the input.
C9_Original ==
    LoopDone =>
        \A i \in Rows(df) :
            LET kw == df[i].Keyword
            IN  Cardinality(ContainerTexts(kw)) >= 2 =>
                    /\ kw \in DOMAIN keyword_master_group_map
                    /\ keyword_master_group_map[kw] = df[MaxOf(Containers(kw))].Keyword

\* C9 amended: such a keyword maps to the keyword of the last record, in
\* input order, among the primary records that contain it and, when it is
\* primary itself, its own records: to the last containing primary unless
\* it is primary and one of its own records comes later, then to itself.
C9_LastWins ==
    LoopDone =>
        \A i \in Rows(df) :
            LET kw == df[i].Keyword
                own == IF df[i].Class = "primary" THEN SameText(kw) ELSE {}
            IN  Cardinality(ContainerTexts(kw)) >= 2 =>
                    /\ kw \in DOMAIN keyword_master_group_map
                    /\ keyword_master_group_map[kw] = df[MaxOf(Containers(kw) \cup own)].Keyword

\* After the loop: a primary keyword that follows its two containers, and a
\* Secondary keyword inside two primaries.
C9_Witness ==
    /\ LoopDone
    /\ \E i, j \in Rows(df) :
          /\ df[i].Class = "primary"
          /\ Cardinality(ContainerTexts(df[i].Keyword)) >= 2
          /\ i > MaxOf(Containers(df[i].Keyword))
          /\ df[j].Class = "Secondary"
          /\ Cardinality(ContainerTexts(df[j].Keyword)) >= 2
          /\ keyword_master_group_map[df[j].Keyword] # df[j].Keyword

\* ----------------------------------------------------------------- C10
\* C10: after the loop every value of the map is a key that maps to itself;
\* in the returned table every group whose key is a primary keyword holds
\* the Master row of that keyword, and a Master row whose keyword is the
\* group key of some row lies in that very group.
C10_ValuesFixed ==
    LoopDone =>
        /\ \A kw \in DOMAIN keyword_master_group_map :
              LET v == keyword_master_group_map[kw]
              IN  /\ v \in DOMAIN keyword_master_group_map
                  /\ keyword_master_group_map[v] = v
        /\ Returned =>
              \A i \in Rows(final_df) :
                  LET g == GroupOf(final_df[i])
                  IN  /\ (\E j \in Rows(df) : df[j].Class = "primary" /\ df[j].Keyword = g)
                          => \E m \in Rows(final_df) :
                                /\ final_df[m].Class = "Master"
                                /\ final_df[m].Keyword = g
                                /\ GroupOf(final_df[m]) = g
                      /\ \A m \in Rows(final_df) :
                            (final_df[m].Class = "Master" /\ final_df[m].Keyword = g)
                                => GroupOf(final_df[m]) = g

\* A returned table in which a primary keyword is grouped under another one.
C10_Witness ==
    /\ Returned
    /\ \E i \in Rows(df) :
          /\ df[i].Class = "primary"
          /\ keyword_master_group_map[df[i].Keyword] # df[i].Keyword
    /\ \E i \in Rows(df) :
          /\ df[i].Class = "Secondary"
          /\ df[i].Keyword \in DOMAIN keyword_master_group_map

====
